---- MODULE Spec2Model ----
(***************************************************************************)
(* Shapefile ingestion of the PostGIS web application (src/app.py):        *)
(* the two upload entry points POST /upload (upload_shapefile and          *)
(* process_shapefile_upload) and POST /api/upload (api_upload and          *)
(* _ingest_zip_to_postgis), their table naming, and their effect on the    *)
(* upload folder, the scratch directories and the public schema.           *)
(*                                                                         *)
(* Strings are sequences of one-character strings.  The character classes *)
(* are those of ASCII: str.isalnum, str.isalpha and str.isdigit are        *)
(* modelled on ASCII letters and digits only.                              *)
(***************************************************************************)
EXTENDS Integers, Sequences, FiniteSets, TLC

\* ------------------------------------------------------------------ bounds
MaxNameLen == 2
MaxEntries == 2
MaxDepth == 1
MaxUploads == 1
MaxRepeats == 2
MaxRaceUploads == 2
MaxFeatures == 1
MaxTables == 21

\* -------------------------------------------------------------- characters
LowerSeq ==
  <<"a","b","c","d","e","f","g","h","i","j","k","l","m",
    "n","o","p","q","r","s","t","u","v","w","x","y","z">>
UpperSeq ==
  <<"A","B","C","D","E","F","G","H","I","J","K","L","M",
    "N","O","P","Q","R","S","T","U","V","W","X","Y","Z">>
DigitSeq == <<"0","1","2","3","4","5","6","7","8","9">>

Range(s) == {s[i] : i \in DOMAIN s}
LowerChars == Range(LowerSeq)
UpperChars == Range(UpperSeq)
DigitChars == Range(DigitSeq)

IsAlpha(c) == c \in LowerChars \cup UpperChars
IsDigit(c) == c \in DigitChars
IsAlnum(c) == IsAlpha(c) \/ IsDigit(c)
IsSpace(c) == c = " "

LowerChar(c) ==
  IF c \in UpperChars
    THEN LowerSeq[CHOOSE i \in DOMAIN UpperSeq : UpperSeq[i] = c]
    ELSE c
Lower(s) == [i \in DOMAIN s |-> LowerChar(s[i])]

\* str(n) for a natural number n
RECURSIVE Dec(_)
Dec(n) == IF n < 10 THEN <<DigitSeq[n + 1]>>
          ELSE Dec(n \div 10) \o <<DigitSeq[(n % 10) + 1]>>

\* str.strip()
RECURSIVE LStrip(_)
LStrip(s) == IF s # <<>> /\ IsSpace(Head(s)) THEN LStrip(Tail(s)) ELSE s
RECURSIVE RStrip(_)
RStrip(s) == IF s # <<>> /\ IsSpace(s[Len(s)])
               THEN RStrip(SubSeq(s, 1, Len(s) - 1)) ELSE s
Strip(s) == RStrip(LStrip(s))

\* str.endswith
EndsWith(s, suf) ==
  /\ Len(s) >= Len(suf)
  /\ SubSeq(s, Len(s) - Len(suf) + 1, Len(s)) = suf

\* index of the last "." of s, 0 when there is none
LastDot(s) ==
  IF \E i \in DOMAIN s : s[i] = "."
    THEN CHOOSE i \in DOMAIN s :
           s[i] = "." /\ \A j \in DOMAIN s : s[j] = "." => j <= i
    ELSE 0

\* os.path.splitext(p)[0] for a name without directory separators: the
\* extension starts at the last dot unless only dots precede it
SplitextRoot(p) ==
  LET d == LastDot(p) IN
  IF d > 0 /\ \E i \in 1..(d - 1) : p[i] # "."
    THEN SubSeq(p, 1, d - 1) ELSE p

\* a token that is the same for every call
UidHexFixed(n) == <<"0","f">>

\* ------------------------------------------------------------ table naming
\* uuid4 hex prefix of the n-th generated token
UidHex(n) == Dec(n) \o <<"f">>

\* sanitize_name with every non-alphanumeric character dropped instead of
\* mapped to "_"
SanitizeNameDropping(name) ==
  LET low == Lower(name)
      cleaned == SelectSeq(low, IsAlnum) IN
  IF cleaned = <<>> THEN <<>>
  ELSE IF ~IsAlpha(cleaned[1]) THEN <<"t","a","b","l","e","_">> \o cleaned
  ELSE cleaned

\* process_shapefile_upload.sanitize_name
SanitizeName(name) ==
  LET low == Lower(name)
      cleaned == [i \in DOMAIN low |-> IF IsAlnum(low[i]) THEN low[i] ELSE "_"] IN
  IF cleaned = <<>> THEN <<>>
  ELSE IF ~IsAlpha(cleaned[1]) THEN <<"t","a","b","l","e","_">> \o cleaned
  ELSE cleaned

\* lines 839-843: the name before the uniqueness probe
UploadBaseName(desired_name, shp_file, upload_id) ==
  LET base_name == SplitextRoot(shp_file)
      preferred == IF desired_name # <<>> THEN SanitizeName(desired_name) ELSE <<>>
      table_name == IF preferred # <<>> THEN preferred ELSE SanitizeName(base_name) IN
  IF table_name = <<>>
    THEN <<"t","a","b","l","e","_">> \o UidHex(upload_id)
    ELSE table_name

\* f"{table_name}_{suffix}"
Suffixed(table_name, suffix) == table_name \o <<"_">> \o Dec(suffix)

\* the probe with "if" in place of "while": one retry only
ProbeOnce(table_name, candidate, suffix, existing_names) ==
  IF candidate \in existing_names /\ suffix = 1
    THEN Suffixed(table_name, suffix)
    ELSE candidate

\* lines 855-860: while candidate in existing_names
RECURSIVE ProbeLoop(_, _, _, _)
ProbeLoop(table_name, candidate, suffix, existing_names) ==
  IF candidate \in existing_names
    THEN ProbeLoop(table_name, Suffixed(table_name, suffix), suffix + 1,
                   existing_names)
    ELSE candidate

UniqueName(table_name, existing_names) ==
  ProbeLoop(table_name, table_name, 1, existing_names)

\* _derive_table_name
DeriveTableName(preferred, original_filename, uid) ==
  LET base == Strip(IF preferred # <<>> THEN preferred
                    ELSE SplitextRoot(original_filename))
      safe0 == [i \in DOMAIN base |->
                  IF IsAlnum(base[i]) \/ base[i] = "_" THEN base[i] ELSE "_"]
      safe == IF safe0 # <<>> /\ IsDigit(safe0[1])
                THEN <<"t","_">> \o safe0 ELSE safe0 IN
  IF Lower(safe) # <<>> THEN Lower(safe) ELSE <<"t","_">> \o UidHex(uid)

\* --------------------------------------------------------- request inputs
S_parks == <<"p","a","r","k","s">>
S_lakes == <<"l","a","k","e","s">>
S_wkt_tmp == <<"_","_","w","k","t","_","t","m","p">>

Filenames ==
  { <<>>,
    <<"n","o","t","e","s",".","t","x","t">>,
    <<"z","i","p">>,
    S_parks \o <<".","z","i","p">>,
    <<"L","a","k","e","s",".","Z","I","P">> }

FormNames == { <<>>, <<"_","x">>, S_parks \o S_wkt_tmp }

\* the members of an archive: depth 0 is the archive's top level
EntryPool ==
  { [depth |-> 0, name |-> S_parks \o <<".","s","h","x">>],
    [depth |-> 0, name |-> S_parks \o <<".","s","h","p">>],
    [depth |-> 0, name |-> S_lakes \o <<".","s","h","p">>],
    [depth |-> 0, name |-> <<"R","O","A","D","S",".","S","H","P">>] }
  \cup { [depth |-> d, name |-> S_lakes \o <<".","s","h","p">>] : d \in 1..MaxDepth }

\* an archive that cannot be opened has no readable member
Archives ==
  { [entries |-> e, corrupt |-> FALSE] :
      e \in { x \in SUBSET EntryPool : Cardinality(x) <= MaxEntries } }
  \cup { [entries |-> {}, corrupt |-> TRUE] }

\* CRS of a FeatureSet: none declared, EPSG:4326, another EPSG code, or a
\* CRS without an EPSG code
CrsKinds == {"none", "epsg4326", "epsg_other", "non_epsg"}

\* --------------------------------------------------------------- the state
AllWorkers == {1, 2}

VARIABLES
  pc,       \* worker -> position of the request it serves
  req,      \* worker -> the request: inputs, locals, response
  tables,   \* public schema: table name -> table
  files,    \* staged archives under UPLOAD_FOLDER
  dirs,     \* scratch directories that exist
  postgis,  \* the spatial extension is enabled
  nextId,   \* next fresh uuid4 token
  nm,       \* naming functions applied to drawn inputs
  first     \* the inputs of the first staged request

vars == <<pc, req, tables, files, dirs, postgis, nextId, nm, first>>

\* an exception of the write stage: its class and what str(e) mentions
NoExc == [raised |-> FALSE, attr |-> FALSE, copy_expert |-> FALSE,
          postgis |-> FALSE]
WriteExceptions ==
  { [raised |-> TRUE, attr |-> a, copy_expert |-> c, postgis |-> p] :
      a \in BOOLEAN, c \in BOOLEAN, p \in BOOLEAN }

\* keys: the members of the JSON object; table_name, count and crs hold the
\* values sent under the route's own keys for them
NoResp == [status |-> 0, success |-> FALSE, error |-> "", detail |-> "",
           table_name |-> <<>>, count |-> 0, crs |-> "none", keys |-> {}]

IdleReq ==
  [ep |-> "none", has_file |-> FALSE, filename |-> <<>>, name |-> <<>>,
   archive |-> [entries |-> {}, corrupt |-> FALSE],
   uid |-> 0, path |-> <<>>, shp |-> [depth |-> 0, name |-> <<>>],
   existing |-> {}, table_name |-> <<>>, read |-> FALSE, rows |-> 0,
   declared |-> "none", crs |-> "none", reproj |-> "none", warned |-> FALSE,
   ext |-> "none",
   exc |-> NoExc, fexc |-> NoExc, start |-> <<>>, resp |-> NoResp]

NmIdle == [op |-> "none", pref |-> <<>>, file |-> <<>>, existing |-> {},
           uid |-> 0, out |-> <<>>, uid2 |-> 0, out2 |-> <<>>]

\* a table that was in the schema before the application started
OldTable == [owner |-> 0, via |-> "bulk", geom |-> "geometry",
             srid |-> "epsg4326", rows |-> 1]

\* the public schema the application starts with
InitSchemas ==
  { [n \in names |-> OldTable] :
      names \in { {}, {S_parks}, {S_parks \o S_wkt_tmp},
                  {S_parks, S_parks \o <<"_","1">>} } }

PipelineInit ==
  /\ pc = [w \in AllWorkers |-> "idle"]
  /\ req = [w \in AllWorkers |-> IdleReq]
  /\ files = {}
  /\ dirs = {}
  /\ postgis \in BOOLEAN
  /\ nextId = 1

NoFirst == [ep |-> "none", filename |-> <<>>, name |-> <<>>,
            archive |-> [entries |-> {}, corrupt |-> FALSE]]

Init == PipelineInit /\ tables \in InitSchemas /\ nm = NmIdle /\ first = NoFirst

\* the application starts on an empty schema
EmptyInit == PipelineInit /\ tables = <<>> /\ nm = NmIdle /\ first = NoFirst

\* ------------------------------------------------------------ the handlers
\* allowed_file without the extension test
AllowedFileAnyExt(filename) == \E i \in DOMAIN filename : filename[i] = "."

\* allowed_file
AllowedFile(filename) ==
  /\ \E i \in DOMAIN filename : filename[i] = "."
  /\ Lower(SubSeq(filename, LastDot(filename) + 1, Len(filename)))
       \in { <<"z","i","p">> }

\* werkzeug secure_filename on ASCII names: blanks become "_", characters
\* outside [A-Za-z0-9_.-] are removed, leading and trailing "." and "_" go
RECURSIVE StripDots(_)
StripDots(s) ==
  IF s # <<>> /\ Head(s) \in {".", "_"} THEN StripDots(Tail(s))
  ELSE IF s # <<>> /\ s[Len(s)] \in {".", "_"}
    THEN StripDots(SubSeq(s, 1, Len(s) - 1))
  ELSE s
SecureChar(c) == IsAlnum(c) \/ c \in {"_", ".", "-"}
SecureFilename(filename) ==
  LET t == Strip(filename)
      u == [i \in DOMAIN t |-> IF IsSpace(t[i]) THEN "_" ELSE t[i]] IN
  StripDots(SelectSeq(u, SecureChar))

\* a write that keeps the table that is already there
PutIfAbsent(tbls, name, rec) ==
  [n \in DOMAIN tbls \cup {name} |-> IF n \in DOMAIN tbls THEN tbls[n] ELSE rec]

\* if_exists='replace': the table of that name is replaced
Put(tbls, name, rec) ==
  [n \in DOMAIN tbls \cup {name} |-> IF n = name THEN rec ELSE tbls[n]]
Drop(tbls, name) == [n \in DOMAIN tbls \ {name} |-> tbls[n]]

\* an error answered with the status of a success
FailOk(status, error, detail) ==
  [NoResp EXCEPT !.status = 200, !.error = error, !.detail = detail,
                 !.keys = {"error"}]

\* jsonify({'error': ...}), status
Fail(status, error, detail) ==
  [NoResp EXCEPT !.status = status, !.error = error, !.detail = detail,
                 !.keys = {"error"}]

\* a request ends: the response is recorded
Finish(w, r, resp) ==
  /\ pc' = [pc EXCEPT ![w] = "done"]
  /\ req' = [req EXCEPT ![w] = [r EXCEPT !.resp = resp]]

Endpoints == {"upload", "api"}

\* upload_shapefile lines 757-777 and api_upload lines 138-149: the request
\* is validated and the archive is saved under the upload folder
Stage(w, limit, eps, filenames, names, archives) ==
  /\ pc[w] = "idle"
  /\ \E ep \in eps :
       LET r0 == [IdleReq EXCEPT !.ep = ep, !.start = tables] IN
       \/ /\ Finish(w, r0, Fail(400, "no_file", ""))
          /\ UNCHANGED <<tables, files, dirs, postgis, nextId, nm>>
       \/ \E filename \in filenames :
            LET r1 == [r0 EXCEPT !.has_file = TRUE, !.filename = filename] IN
            \/ /\ filename = <<>>
               /\ Finish(w, r1, Fail(400, "no_filename", ""))
               /\ UNCHANGED <<tables, files, dirs, postgis, nextId, nm>>
            \/ /\ filename # <<>> /\ ~AllowedFile(filename)
               /\ Finish(w, r1, Fail(400, "invalid_type", ""))
               /\ UNCHANGED <<tables, files, dirs, postgis, nextId, nm>>
            \/ /\ filename # <<>> /\ AllowedFile(filename)
               /\ nextId <= limit
               /\ \E name \in names, archive \in archives :
                    LET r2 == [r1 EXCEPT !.name = name, !.archive = archive,
                                         !.uid = nextId,
                                         !.path = <<Dec(nextId), SecureFilename(filename)>>] IN
                    \/ /\ pc' = [pc EXCEPT ![w] = "staged"]
                       /\ req' = [req EXCEPT ![w] = r2]
                       /\ files' = files \cup {r2.path}
                       /\ nextId' = nextId + 1
                       /\ UNCHANGED <<tables, dirs, postgis, nm>>
                    \/ /\ Finish(w, r2, Fail(500, "upload_failed", "save"))
                       /\ nextId' = nextId + 1
                       /\ UNCHANGED <<tables, files, dirs, postgis, nm>>

\* upload_shapefile lines 793-797 after process_shapefile_upload returned a
\* failure: the scratch directory is gone and the staged archive is removed
UploadFailOf(w, r, error, detail) ==
  /\ Finish(w, r, Fail(500, error, detail))
  /\ files' = files \ {r.path}
  /\ dirs' = dirs \ {r.uid}
  /\ UNCHANGED <<tables, postgis, nextId, nm, first>>

UploadFail(w, error, detail) == UploadFailOf(w, req[w], error, detail)

\* lines 784-792: success response, staged archive removed
UploadSucceed(w) ==
  /\ Finish(w, req[w],
            [NoResp EXCEPT !.status = 200, !.success = TRUE,
                           !.table_name = req[w].table_name,
                           !.count = req[w].rows,
                           !.keys = {"success", "message", "table_name",
                                     "record_count"}])
  /\ files' = files \ {req[w].path}
  /\ dirs' = dirs \ {req[w].uid}

\* a listing that takes every top-level name for a shapefile
UploadShpFilesAny(archive) == {e \in archive.entries : e.depth = 0}

\* line 820: the top-level names that end with ".shp"
UploadShpFiles(archive) ==
  {e \in archive.entries : e.depth = 0 /\ EndsWith(e.name, <<".","s","h","p">>)}

\* process_shapefile_upload lines 814-860: expand, locate, name, probe
UploadLocate(w) ==
  /\ pc[w] = "staged" /\ req[w].ep = "upload"
  /\ LET r == req[w]
         shp_files == UploadShpFiles(r.archive) IN
     \/ /\ r.archive.corrupt
        /\ UploadFail(w, "processing_failed", "archive")
     \/ /\ ~r.archive.corrupt /\ shp_files = {}
        /\ UploadFail(w, "no_shp", "")
     \/ /\ ~r.archive.corrupt /\ Cardinality(shp_files) > 1
        /\ UploadFail(w, "multiple_shp", "")
     \/ /\ ~r.archive.corrupt /\ Cardinality(shp_files) = 1
        /\ UploadFail(w, "processing_failed", "listing")
     \/ /\ ~r.archive.corrupt /\ Cardinality(shp_files) = 1
        /\ LET shp == CHOOSE e \in shp_files : TRUE
               existing_names == DOMAIN tables
               table_name == UploadBaseName(Strip(r.name), shp.name, r.uid) IN
           /\ req' = [req EXCEPT ![w] =
                        [r EXCEPT !.shp = shp, !.existing = existing_names,
                                  !.table_name = UniqueName(table_name, existing_names)]]
           /\ pc' = [pc EXCEPT ![w] = "named"]
           /\ dirs' = dirs \cup {r.uid}
           /\ UNCHANGED <<tables, files, postgis, nextId, nm, first>>

\* CRS handling that leaves every declared CRS as it is
UploadNormalizeCrsNoop(crs, reprojOk) ==
  [crs |-> crs, reproj |-> "none", warned |-> crs = "none"]

\* lines 868-881: CRS handling of POST /upload; reproj tells whether
\* gdf.to_crs was called and whether it returned or raised
UploadNormalizeCrs(crs, reprojOk) ==
  IF crs = "none" THEN [crs |-> "none", reproj |-> "none", warned |-> TRUE]
  ELSE IF crs = "epsg4326" THEN [crs |-> crs, reproj |-> "none", warned |-> FALSE]
  ELSE IF reprojOk THEN [crs |-> "epsg4326", reproj |-> "ok", warned |-> FALSE]
  ELSE [crs |-> crs, reproj |-> "failed", warned |-> TRUE]

\* a zero-feature check that never fires
NoFeaturesNever(rows) == FALSE

\* line 865: len(gdf) == 0
NoFeatures(rows) == rows = 0

\* an extension attempt whose failure ends the run
AfterExtensionFatal(extOk) == IF extOk THEN "ready" ELSE "done"

\* lines 885-891: the exception of the attempt is printed and passed over
AfterExtension(extOk) == "ready"

\* lines 862-891: read, no-features check, CRS, extension attempt
UploadRead(w, kinds) ==
  /\ pc[w] = "named"
  /\ \/ UploadFail(w, "processing_failed", "read")
     \/ \E rows \in 0..MaxFeatures, crs \in kinds,
           reprojOk \in BOOLEAN, extOk \in BOOLEAN :
          LET n == UploadNormalizeCrs(crs, reprojOk)
              r == [req[w] EXCEPT !.read = TRUE, !.rows = rows,
                                  !.declared = crs, !.crs = crs] IN
          IF NoFeatures(rows)
            THEN UploadFailOf(w, r, "no_features", "")
            ELSE /\ req' = [req EXCEPT ![w] =
                              [r EXCEPT !.crs = n.crs, !.reproj = n.reproj,
                                        !.warned = n.warned,
                                        !.ext = IF extOk THEN "ok" ELSE "failed"]]
                 /\ pc' = [pc EXCEPT ![w] = AfterExtension(extOk)]
                 /\ postgis' = (postgis \/ extOk)
                 /\ UNCHANGED <<tables, files, dirs, nextId, nm, first>>

\* the table gdf.to_postgis writes: the geometry column keeps the name
\* read_file gave it and is tagged with the CRS of the FeatureSet
BulkTable(r) ==
  [owner |-> r.uid, via |-> "bulk", geom |-> "geometry", srid |-> r.crs,
   rows |-> r.rows]

\* lines 915-917: ST_GeomFromText(__geometry_wkt, 4326)::geometry AS geometry
WktTable(r) ==
  [owner |-> r.uid, via |-> "wkt", geom |-> "geometry", srid |-> "epsg4326",
   rows |-> r.rows]

\* a dispatch that sends every AttributeError to the fallback
StartsFallbackAnyAttr(exc) == exc.attr

\* lines 903-905: except AttributeError, 'copy_expert' in str(ae)
StartsFallback(exc) == exc.attr /\ exc.copy_expert

\* lines 923-931: except Exception as import_err
ImportErrorResponse(exc) ==
  IF exc.postgis THEN Fail(500, "postgis_missing", "")
  ELSE Fail(500, "import_error", "other")

\* an exception that is answered with an empty result
ProcessingFailedBlank(exc) == [NoResp EXCEPT !.status = 500]

\* line 940: 'Processing failed: ' followed by str(e)
ProcessingFailed(exc) ==
  Fail(500, "processing_failed", IF exc.postgis THEN "postgis" ELSE "other")

\* lines 893-902 and 921-931: the primary bulk write and its error handling;
\* an AttributeError that is re-raised at line 922 leaves the try statement
\* and is caught at line 939
UploadWrite(w, excs) ==
  /\ pc[w] = "ready" /\ req[w].ep = "upload"
  /\ \/ /\ postgis
        /\ tables' = Put(tables, req[w].table_name, BulkTable(req[w]))
        /\ UploadSucceed(w)
        /\ UNCHANGED <<postgis, nextId, nm, first>>
     \/ \E exc \in excs :
          LET r == [req[w] EXCEPT !.exc = exc] IN
          IF StartsFallback(exc)
            THEN /\ pc' = [pc EXCEPT ![w] = "fallback"]
                 /\ req' = [req EXCEPT ![w] = r]
                 /\ UNCHANGED <<tables, files, dirs, postgis, nextId, nm, first>>
          ELSE IF exc.attr
            THEN UploadFailOf(w, r, ProcessingFailed(exc).error,
                              ProcessingFailed(exc).detail)
          ELSE UploadFailOf(w, r, ImportErrorResponse(exc).error,
                            ImportErrorResponse(exc).detail)

\* lines 906-920: the WKT fallback, one transaction; an exception raised
\* here is raised inside the except clause and is caught at line 939
UploadFallback(w, excs) ==
  /\ pc[w] = "fallback"
  /\ \/ /\ postgis
        /\ LET tmp_table == req[w].table_name \o S_wkt_tmp IN
           tables' = Put(Drop(tables, tmp_table), req[w].table_name,
                         WktTable(req[w]))
        /\ UploadSucceed(w)
        /\ UNCHANGED <<postgis, nextId, nm, first>>
     \/ \E exc \in excs :
          UploadFailOf(w, [req[w] EXCEPT !.fexc = exc],
                       ProcessingFailed(exc).error, ProcessingFailed(exc).detail)

\* lines 96-103: the first .shp that os.walk meets, top level first
ApiFirstShp(archive) ==
  LET shp == {e \in archive.entries : EndsWith(Lower(e.name), <<".","s","h","p">>)}
      top == {e \in shp : e.depth = 0} IN
  IF top # {} THEN top ELSE shp

\* lines 110-118: CRS handling of POST /api/upload; a failure of to_crs
\* is passed over without any output
ApiNormalizeCrs(crs, reprojOk) ==
  IF crs = "none" THEN [crs |-> "epsg4326", reproj |-> "none"]
  ELSE IF reprojOk THEN [crs |-> "epsg4326", reproj |-> "ok"]
  ELSE [crs |-> crs, reproj |-> "failed"]

ApiFailOf(w, r, detail) ==
  /\ Finish(w, r, Fail(500, "upload_failed", detail))
  /\ UNCHANGED <<tables, files, dirs, postgis, nextId, nm, first>>

ApiFail(w, detail) == ApiFailOf(w, req[w], detail)

\* line 108: gdf.empty
GdfEmpty(rows) == rows = 0

\* lines 119-127: the geometry column is renamed to geom; the column is
\* typed with SRID 4326 when geoalchemy2 is importable, else it carries the
\* CRS of the FeatureSet
ApiTables(r) ==
  { [owner |-> r.uid, via |-> "bulk", geom |-> "geom", srid |-> s,
     rows |-> r.rows] :
      s \in {"epsg4326", r.crs} }

\* api_upload lines 150-169 with _ingest_zip_to_postgis
ApiIngest(w, kinds, excs) ==
  /\ pc[w] = "staged" /\ req[w].ep = "api"
  /\ LET table_name == DeriveTableName(Strip(req[w].name),
                                       SecureFilename(req[w].filename), req[w].uid)
         r == [req[w] EXCEPT !.table_name = table_name] IN
     \/ /\ r.archive.corrupt
        /\ ApiFailOf(w, r, "archive")
     \/ /\ ~r.archive.corrupt /\ ApiFirstShp(r.archive) = {}
        /\ ApiFailOf(w, r, "no_shp")
     \/ /\ ~r.archive.corrupt /\ ApiFirstShp(r.archive) # {}
        /\ \/ ApiFailOf(w, r, "read")
           \/ \E shp \in ApiFirstShp(r.archive), rows \in 0..MaxFeatures,
                 crs \in kinds, reprojOk \in BOOLEAN :
                LET n == ApiNormalizeCrs(crs, reprojOk)
                    r1 == [r EXCEPT !.shp = shp, !.read = TRUE, !.rows = rows,
                                    !.declared = crs, !.crs = crs]
                    r2 == IF GdfEmpty(rows) THEN r1
                          ELSE [r1 EXCEPT !.crs = n.crs, !.reproj = n.reproj] IN
                IF GdfEmpty(rows)
                  THEN ApiFailOf(w, r2, "no_features")
                  ELSE \/ \E exc \in excs :
                            ApiFailOf(w, [r2 EXCEPT !.exc = exc], "write")
                       \/ /\ postgis
                          /\ \E t \in ApiTables(r2) :
                               tables' = Put(tables, table_name, t)
                          /\ Finish(w, r2,
                                    [NoResp EXCEPT !.status = 200, !.success = TRUE,
                                                   !.table_name = table_name,
                                                   !.count = rows, !.crs = r2.crs,
                                                   !.keys = {"ok", "filename", "saved_as",
                                                             "size_bytes", "message", "table",
                                                             "feature_count", "crs"}])
                          /\ UNCHANGED <<files, dirs, postgis, nextId, nm, first>>

\* the response has been sent: the worker takes the next request
Respond(w) ==
  /\ pc[w] = "done"
  /\ pc' = [pc EXCEPT ![w] = "idle"]
  /\ req' = [req EXCEPT ![w] = IdleReq]
  /\ UNCHANGED <<tables, files, dirs, postgis, nextId, nm, first>>

\* one worker serves the requests one after the other
Next ==
  \/ Stage(1, MaxUploads, Endpoints, Filenames, FormNames, Archives) /\ UNCHANGED first
  \/ UploadLocate(1)
  \/ UploadRead(1, CrsKinds)
  \/ UploadWrite(1, WriteExceptions)
  \/ UploadFallback(1, WriteExceptions)
  \/ ApiIngest(1, CrsKinds, WriteExceptions)
  \/ Respond(1)

Spec == Init /\ [][Next]_vars

\* ------------------------------------------- the same request, repeated
\* every request after the first one carries the first one's endpoint,
\* filename, name field and archive
RepeatStage(w) ==
  \/ /\ first = NoFirst
     /\ \E ep \in Endpoints, filename \in Filenames \ {<<>>},
           name \in FormNames, archive \in Archives :
          /\ AllowedFile(filename)
          /\ Stage(w, MaxRepeats, {ep}, {filename}, {name}, {archive})
          /\ req'[w].uid # 0
          /\ first' = [ep |-> ep, filename |-> filename, name |-> name,
                       archive |-> archive]
  \/ /\ first # NoFirst
     /\ Stage(w, MaxRepeats, {first.ep}, {first.filename}, {first.name},
              {first.archive})
     /\ req'[w].uid # 0
     /\ UNCHANGED first

RepeatNext ==
  \/ RepeatStage(1)
  \/ UploadLocate(1)
  \/ UploadRead(1, CrsKinds)
  \/ UploadWrite(1, WriteExceptions)
  \/ UploadFallback(1, WriteExceptions)
  \/ ApiIngest(1, CrsKinds, WriteExceptions)
  \/ Respond(1)

RepeatSpec == EmptyInit /\ [][RepeatNext]_vars

\* ------------------------------------------------- two concurrent uploads
RaceFilenames == { S_parks \o <<".","z","i","p">> }
RaceNames == { <<>> }
RaceArchives ==
  { [entries |-> {e}, corrupt |-> FALSE] :
      e \in {x \in EntryPool : x.depth = 0 /\ EndsWith(x.name, <<".","s","h","p">>)} }

\* the bulk-copy AttributeError and one unrelated error
FewExceptions ==
  { [raised |-> TRUE, attr |-> TRUE, copy_expert |-> TRUE, postgis |-> FALSE],
    [raised |-> TRUE, attr |-> FALSE, copy_expert |-> FALSE, postgis |-> FALSE] }

RaceNext ==
  \E w \in AllWorkers :
    \/ /\ Stage(w, MaxRaceUploads, {"upload"}, RaceFilenames, RaceNames, RaceArchives)
       /\ UNCHANGED first
    \/ UploadLocate(w)
    \/ UploadRead(w, {"epsg4326"})
    \/ UploadWrite(w, FewExceptions)
    \/ UploadFallback(w, FewExceptions)
    \/ Respond(w)

RaceSpec == EmptyInit /\ [][RaceNext]_vars

\* ------------------------------------- one FeatureSet, every write outcome
WriteArchives ==
  { [entries |-> {[depth |-> 0, name |-> S_parks \o <<".","s","h","p">>]},
     corrupt |-> FALSE] }

WriteNext ==
  \/ /\ Stage(1, MaxUploads, Endpoints, RaceFilenames, RaceNames, WriteArchives)
     /\ UNCHANGED first
  \/ UploadLocate(1)
  \/ UploadRead(1, CrsKinds)
  \/ UploadWrite(1, WriteExceptions)
  \/ UploadFallback(1, WriteExceptions)
  \/ ApiIngest(1, CrsKinds, WriteExceptions)
  \/ Respond(1)

WriteSpec == EmptyInit /\ [][WriteNext]_vars

\* ------------------------------------------- the import script and downloads
S_natural_water == <<"n","a","t","u","r","a","l","_","w","a","t","e","r">>

\* the script has no response: the outcome it prints
ScriptEnd(w, r, success, error) ==
  Finish(w, r, [NoResp EXCEPT !.success = success, !.error = error])

\* shapefile_importer.py lines 143-145 and 161-162: create_engine_connection
ScriptStart(w, limit) ==
  /\ pc[w] = "idle" /\ nextId <= limit
  /\ LET r == [IdleReq EXCEPT !.ep = "script", !.uid = nextId,
                              !.table_name = S_natural_water, !.start = tables] IN
     /\ \/ pc' = [pc EXCEPT ![w] = "s_engine"] /\ req' = [req EXCEPT ![w] = r]
        \/ ScriptEnd(w, r, FALSE, "engine")
     /\ nextId' = nextId + 1
     /\ UNCHANGED <<tables, files, dirs, postgis, nm, first>>

\* lines 146-147 with enable_postgis (31-50): the result is not looked at
ScriptEnable(w) ==
  /\ pc[w] = "s_engine"
  /\ \E extOk \in BOOLEAN :
       /\ req' = [req EXCEPT ![w].ext = IF extOk THEN "ok" ELSE "failed"]
       /\ postgis' = (postgis \/ extOk)
  /\ pc' = [pc EXCEPT ![w] = "s_ext"]
  /\ UNCHANGED <<tables, files, dirs, nextId, nm, first>>

\* lines 149-152 and 159-160 with examine_shapefile (52-81)
ScriptExamine(w, kinds) ==
  /\ pc[w] = "s_ext"
  /\ \/ /\ ScriptEnd(w, req[w], FALSE, "examine")
     \/ \E rows \in 0..MaxFeatures, crs \in kinds :
          /\ req' = [req EXCEPT ![w].read = TRUE, ![w].rows = rows,
                                ![w].declared = crs, ![w].crs = crs]
          /\ pc' = [pc EXCEPT ![w] = "s_read"]
  /\ UNCHANGED <<tables, files, dirs, postgis, nextId, nm, first>>

\* lines 153-158 with import_shapefile (83-114): the write, then the count
\* that verifies it
ScriptImport(w, excs) ==
  /\ pc[w] = "s_read"
  /\ \/ /\ postgis
        /\ tables' = Put(tables, req[w].table_name, BulkTable(req[w]))
        /\ \/ ScriptEnd(w, req[w], TRUE, "")
           \/ \E exc \in excs :
                ScriptEnd(w, [req[w] EXCEPT !.exc = exc], FALSE, "verify")
     \/ /\ \E exc \in excs :
             ScriptEnd(w, [req[w] EXCEPT !.exc = exc], FALSE, "import")
        /\ UNCHANGED tables
  /\ UNCHANGED <<files, dirs, postgis, nextId, nm, first>>

\* lines 956-960: the spatial test of download_shapefile on the columns of
\* an uploaded table, whose geometry column has udt type geometry
DownloadHasGeometry(t) ==
  LET udt_name == "geometry" IN
  \/ udt_name = "geometry" \/ udt_name = "geography"
  \/ t.geom \in {"geometry", "geom", "the_geom", "wkb_geometry"}

\* line 967: read_postgis(query, conn, geom_col='geometry') finds the column
DownloadReadsGeometry(t) == t.geom = "geometry"

\* download_shapefile lines 942-1005
Download(w) ==
  /\ pc[w] = "idle"
  /\ \E name \in DOMAIN tables \cup {S_lakes} :
       LET r == [IdleReq EXCEPT !.ep = "download", !.table_name = name,
                                !.start = tables] IN
       \/ /\ name \notin DOMAIN tables
          /\ Finish(w, r, Fail(400, "not_spatial", ""))
       \/ /\ name \in DOMAIN tables /\ ~DownloadHasGeometry(tables[name])
          /\ Finish(w, r, Fail(400, "not_spatial", ""))
       \/ /\ name \in DOMAIN tables /\ DownloadHasGeometry(tables[name])
          /\ IF ~DownloadReadsGeometry(tables[name])
               THEN Finish(w, r, Fail(500, "failed_to_create", "geom_col"))
             ELSE IF tables[name].rows = 0
               THEN Finish(w, r, Fail(404, "no_data", ""))
             ELSE \/ Finish(w, r, Fail(500, "failed_to_create", "other"))
                  \/ Finish(w, r, [NoResp EXCEPT !.status = 200, !.success = TRUE,
                                                 !.table_name = name])
  /\ UNCHANGED <<tables, files, dirs, postgis, nextId, nm, first>>

SiteNext ==
  \/ /\ Stage(1, MaxUploads, Endpoints, RaceFilenames, RaceNames, WriteArchives)
     /\ UNCHANGED first
  \/ UploadLocate(1)
  \/ UploadRead(1, {"none", "epsg_other"})
  \/ UploadWrite(1, FewExceptions)
  \/ UploadFallback(1, FewExceptions)
  \/ ApiIngest(1, {"none", "epsg_other"}, FewExceptions)
  \/ ScriptStart(1, MaxUploads)
  \/ ScriptEnable(1)
  \/ ScriptExamine(1, {"none", "epsg_other"})
  \/ ScriptImport(1, FewExceptions)
  \/ Download(1)
  \/ Respond(1)

SiteSpec == EmptyInit /\ [][SiteNext]_vars

\* ------------------------------------ every filename and every archive
LocateNext ==
  \/ /\ Stage(1, MaxUploads, Endpoints, Filenames, RaceNames, Archives)
     /\ UNCHANGED first
  \/ UploadLocate(1)
  \/ UploadRead(1, {"epsg4326"})
  \/ UploadWrite(1, FewExceptions)
  \/ UploadFallback(1, FewExceptions)
  \/ ApiIngest(1, {"epsg4326"}, FewExceptions)
  \/ Respond(1)

LocateSpec == EmptyInit /\ [][LocateNext]_vars

\* ------------------------------------------- the naming functions alone
NameAlphabet == {"a", "R", "2", "_", "!", " "}

RECURSIVE StringsUpTo(_)
StringsUpTo(n) ==
  IF n = 0 THEN { <<>> }
  ELSE LET shorter == StringsUpTo(n - 1) IN
       shorter \cup { Append(s, c) : s \in {t \in shorter : Len(t) = n - 1},
                                     c \in NameAlphabet }

S_RoadsBang == <<"R","o","a","d","s","!">>
S_2024_survey == <<"2","0","2","4","_","s","u","r","v","e","y">>
S_roads == <<"r","o","a","d","s">>

S_Roads == <<"R","o","a","d","s">>

NameInputs == StringsUpTo(MaxNameLen) \cup {S_RoadsBang, S_Roads, S_2024_survey}

FileInputs == { <<>>, S_parks \o <<".","z","i","p">>, <<"2",".","s","h","p">> }

ExistingPool ==
  { S_roads, S_roads \o <<"_","1">>, <<"a">>, <<"a","_","1">>, <<"a","_","2">>,
    <<"r">> }

NameInit ==
  /\ PipelineInit
  /\ tables = <<>>
  /\ first = NoFirst
  /\ nm \in { [NmIdle EXCEPT !.pref = p, !.file = f, !.existing = e, !.uid = 1] :
                p \in NameInputs, f \in FileInputs, e \in SUBSET ExistingPool }

NmDone(op, out) ==
  /\ nm.op = "none"
  /\ nm' = [nm EXCEPT !.op = op, !.out = out]
  /\ UNCHANGED <<pc, req, tables, files, dirs, postgis, nextId, first>>

\* sanitize_name(pref)
NmSanitize == NmDone("sanitize", SanitizeName(nm.pref))

\* the uniqueness probe on a sanitized base
NmProbe ==
  /\ SanitizeName(nm.pref) # <<>>
  /\ NmDone("probe", UniqueName(SanitizeName(nm.pref), nm.existing))

\* lines 839-860: the table name of POST /upload for the name field pref
\* and the shapefile file
NmUploadName ==
  NmDone("upload_name",
         UniqueName(UploadBaseName(Strip(nm.pref), nm.file, nm.uid), nm.existing))

\* lines 152-153: the table name of POST /api/upload
NmDerive == NmDone("derive", DeriveTableName(Strip(nm.pref), nm.file, nm.uid))

\* two results for the same inputs, each call with the token it drew
NmDone2(op, uid2, out, out2) ==
  /\ nm.op = "none"
  /\ nm' = [nm EXCEPT !.op = op, !.out = out, !.uid2 = uid2, !.out2 = out2]
  /\ UNCHANGED <<pc, req, tables, files, dirs, postgis, nextId, first>>

\* lines 772 and 839-860: two uploads with the same name field, the same
\* shapefile and the same schema listing, each with its own upload_id
NmUploadTwice ==
  \E uid2 \in {nm.uid, nm.uid + 1} :
    NmDone2("upload_twice", uid2,
            UniqueName(UploadBaseName(Strip(nm.pref), nm.file, nm.uid), nm.existing),
            UniqueName(UploadBaseName(Strip(nm.pref), nm.file, uid2), nm.existing))

\* lines 83-89: two calls of _derive_table_name, each with its own uuid4
NmDeriveTwice ==
  \E uid2 \in {nm.uid, nm.uid + 1} :
    NmDone2("derive_twice", uid2,
            DeriveTableName(Strip(nm.pref), nm.file, nm.uid),
            DeriveTableName(Strip(nm.pref), nm.file, uid2))

\* lines 839-843 and 83-89 on the same inputs, before the probe
NmBoth ==
  NmDone2("both", nm.uid,
          UploadBaseName(Strip(nm.pref), nm.file, nm.uid),
          DeriveTableName(Strip(nm.pref), nm.file, nm.uid))

NameNext ==
  \/ NmSanitize \/ NmProbe \/ NmUploadName \/ NmDerive
  \/ NmUploadTwice \/ NmDeriveTwice \/ NmBoth

NameSpec == NameInit /\ [][NameNext]_vars

\* ------------------------------------------- the catalog and GET /api/search
\* line 1123: results[:20]; line 1068: LIMIT 3; line 1107: min(.., 10)
ResultLimit == 20
SampleLimit == 3
DataMatchCap == 10

Min(a, b) == IF a < b THEN a ELSE b

\* needle in hay
Contains(hay, needle) ==
  \E i \in 0..(Len(hay) - Len(needle)) :
    SubSeq(hay, i + 1, i + Len(needle)) = needle

\* value LIKE '%pattern%', where "_" in the pattern stands for any character
LikeContains(value, pattern) ==
  \E i \in 0..(Len(value) - Len(pattern)) :
    \A k \in 1..Len(pattern) : pattern[k] = "_" \/ value[i + k] = pattern[k]

S_geometry == <<"g","e","o","m","e","t","r","y">>
S_geography == <<"g","e","o","g","r","a","p","h","y">>
S_geom == <<"g","e","o","m">>
S_the_geom == <<"t","h","e","_","g","e","o","m">>
S_wkb_geometry == <<"w","k","b","_">> \o S_geometry
S_integer == <<"i","n","t","e","g","e","r">>
S_int4 == <<"i","n","t","4">>
S_varchar == <<"v","a","r","c","h","a","r">>
S_text == <<"t","e","x","t">>
S_null == <<"n","u","l","l">>
S_shape == <<"s","h","a","p","e">>
S_id == <<"i","d">>

SpatialNames == {S_geometry, S_geom, S_the_geom, S_wkb_geometry}

\* a column: its name, its udt_name in information_schema.columns and
\* str(col['type']) of the inspector
Column(name, udt, type) == [name |-> name, udt |-> udt, type |-> type]

ColId == Column(S_id, S_int4, S_integer)

\* test_spatial.py lines 29-33
TestHasSpatial(columns) ==
  \E j \in DOMAIN columns :
    \/ columns[j].udt = S_geometry \/ columns[j].udt = S_geography
    \/ Lower(columns[j].name) \in SpatialNames

\* api_tables lines 482-486
TablesHasSpatial(columns) ==
  \E j \in DOMAIN columns :
    \/ columns[j].udt = S_geometry \/ columns[j].udt = S_geography
    \/ Lower(columns[j].name) \in SpatialNames

\* api_geojson lines 527-532: the first spatial column, <<>> for None
GeojsonGeometryCol(columns) ==
  LET hits == {j \in DOMAIN columns :
                 \/ columns[j].udt = S_geometry \/ columns[j].udt = S_geography
                 \/ Lower(columns[j].name) \in SpatialNames} IN
  IF hits = {} THEN <<>>
  ELSE columns[CHOOSE j \in hits : \A k \in hits : j <= k].name

\* map_view lines 701-705
MapHasGeometry(columns) ==
  \E j \in DOMAIN columns :
    \/ columns[j].udt = S_geometry \/ columns[j].udt = S_geography
    \/ Lower(columns[j].name) \in SpatialNames

\* download_shapefile lines 956-960
DownloadHasSpatial(columns) ==
  \E j \in DOMAIN columns :
    \/ columns[j].udt = S_geometry \/ columns[j].udt = S_geography
    \/ Lower(columns[j].name) \in SpatialNames

\* search_database lines 1089-1093
SearchHasSpatial(columns) ==
  \E j \in DOMAIN columns :
    \/ Lower(columns[j].name) \in SpatialNames
    \/ Contains(Lower(columns[j].type), S_geometry)

\* lines 1039-1042: the columns whose values are searched
IsSearchCol(col) ==
  \E t \in {S_text, S_varchar, <<"c","h","a","r">>, <<"s","t","r","i","n","g">>} :
    Contains(Lower(col.type), t)

\* lines 1053-1058 and 1064-1068: the rows the WHERE clause selects
LikeRows(t, query) ==
  {r \in DOMAIN t.rows :
     \E j \in DOMAIN t.columns :
       /\ IsSearchCol(t.columns[j])
       /\ LikeContains(Lower(t.rows[r][j]), Lower(query))}

\* lines 1075-1080
MatchingFields(t, record, query) ==
  {j \in DOMAIN t.columns :
     /\ IsSearchCol(t.columns[j])
     /\ record[j] # <<>>
     /\ Contains(Lower(record[j]), Lower(query))}

\* lines 1072-1086: the sampled records with a matching field
DataMatches(t, query, sample_records) ==
  {r \in sample_records : MatchingFields(t, t.rows[r], query) # {}}

\* lines 1104-1108
RelevanceScore(table_match, column_matches, data_matches) ==
  (IF table_match THEN 10 ELSE 0)
  + Cardinality(column_matches) * 5
  + Min(Cardinality(data_matches), DataMatchCap) * 2

\* lines 1024-1110: the entry of one table; at is its place in the listing
TableResult(t, at, query, sample_records) ==
  LET table_match == Contains(Lower(t.table_name), Lower(query))
      column_matches == {j \in DOMAIN t.columns :
                           Contains(Lower(t.columns[j].name), Lower(query))}
      data_matches == DataMatches(t, query, sample_records) IN
  [at |-> at, table_name |-> t.table_name, table_match |-> table_match,
   column_matches |-> column_matches,
   total_data_matches |-> Cardinality(data_matches),
   has_spatial |-> SearchHasSpatial(t.columns),
   relevance_score |-> RelevanceScore(table_match, column_matches, data_matches)]

\* lines 1022-1115: the loop over the tables; a table that raises is passed
\* over, a table with no match is not appended
RECURSIVE CollectResults(_, _, _, _)
CollectResults(catalog, query, samples, i) ==
  IF i > Len(catalog) THEN <<>>
  ELSE LET t == catalog[i]
           row == TableResult(t, i, query, samples[i])
           rest == CollectResults(catalog, query, samples, i + 1) IN
       IF t.raises THEN rest
       ELSE IF row.table_match \/ row.column_matches # {}
               \/ row.total_data_matches > 0
         THEN <<row>> \o rest
       ELSE rest

\* the results left in the order of the listing
KeepOrder(results) == results

\* list.sort(key=relevance_score, reverse=True): stable, so an entry goes
\* behind every entry with a higher score and every earlier entry with the
\* same score
SortByRelevance(results) ==
  LET place(k) ==
        1 + Cardinality({j \in DOMAIN results :
              \/ results[j].relevance_score > results[k].relevance_score
              \/ /\ results[j].relevance_score = results[k].relevance_score
                 /\ j < k}) IN
  [p \in DOMAIN results |-> results[CHOOSE k \in DOMAIN results : place(k) = p]]

NoSearch == [status |-> 0, keys |-> {}, query |-> <<>>, total_results |-> 0,
             results |-> <<>>]

\* search_database lines 1010-1124
SearchDatabase(q, catalog, samples) ==
  LET query == Strip(q) IN
  IF query = <<>>
    THEN [NoSearch EXCEPT !.status = 200, !.keys = {"results"}]
  ELSE LET results == SortByRelevance(CollectResults(catalog, query, samples, 1)) IN
       [status |-> 200, keys |-> {"query", "total_results", "results"},
        query |-> query, total_results |-> Len(results),
        results |-> SubSeq(results, 1, Min(ResultLimit, Len(results)))]

\* lines 1064-1070: LIMIT 3 with no ORDER BY returns any 3 of the selected
\* rows, all of them when there are no more than 3
SamplesOf(t, query) ==
  LET selected == LikeRows(t, query) IN
  IF Cardinality(selected) <= SampleLimit THEN {selected}
  ELSE {sample \in SUBSET selected : Cardinality(sample) = SampleLimit}

\* one sample for each table of the listing
RECURSIVE SampleChoicesFrom(_, _, _)
SampleChoicesFrom(catalog, query, i) ==
  IF i > Len(catalog) THEN { <<>> }
  ELSE { <<sample>> \o rest : sample \in SamplesOf(catalog[i], query),
                              rest \in SampleChoicesFrom(catalog, query, i + 1) }

SampleChoices(catalog, q) == SampleChoicesFrom(catalog, Strip(q), 1)

\* the tables of the catalog
BulkTable_k(i) ==
  [table_name |-> <<"k">> \o Dec(i),
   columns |-> <<ColId, Column(S_geom, S_geometry, S_geometry)>>,
   rows |-> <<>>, raises |-> FALSE]

LakeKinds == << <<"o","a","k">>, <<"k","x">>, <<"K","e","l","p">>,
                <<"k","_","1">>, <<"k","a">> >>

Lakes(raises) ==
  [table_name |-> S_lakes,
   columns |-> <<ColId, Column(<<"K","i","n","d">>, S_varchar, S_varchar),
                 Column(S_geom, S_geometry, S_geometry)>>,
   rows |-> [r \in 1..5 |-> <<Dec(r), LakeKinds[r], <<"0","1">> >>],
   raises |-> raises]

Parks(raises) ==
  [table_name |-> S_parks,
   columns |-> <<ColId, Column(<<"n","a","m","e">>, S_text, S_text),
                 Column(S_shape, S_geography, S_geography)>>,
   rows |-> << <<Dec(1), <<"K","i","n","g"," ","S","t">>, <<"0","1">> >> >>,
   raises |-> raises]

\* str(col['type']) of a geometry column is "NULL" where geoalchemy2 is not
\* installed (lines 13-16) and names the geometry type where it is
Sites(type) ==
  [table_name |-> <<"s","i","t","e","s">>,
   columns |-> <<ColId, Column(S_shape, S_geometry, type)>>,
   rows |-> <<>>, raises |-> FALSE]

Plots ==
  [table_name |-> <<"p","l","o","t","s">>,
   columns |-> <<Column(<<"T","h","e","_","G","e","o","m">>, S_int4, S_integer),
                 Column(<<"n","o","t","e">>, S_int4, S_integer)>>,
   rows |-> <<>>, raises |-> FALSE]

Bulk(n) == [i \in 1..n |-> BulkTable_k(i)]

Catalogs ==
  { Bulk(n) \o parks \o lakes \o sites \o plots :
      n \in {0, MaxTables},
      lakes \in {<<>>, <<Lakes(FALSE)>>, <<Lakes(TRUE)>>},
      parks \in {<<>>, <<Parks(FALSE)>>, <<Parks(TRUE)>>},
      sites \in {<<>>, <<Sites(S_geometry)>>, <<Sites(S_null)>>},
      plots \in {<<>>, <<Plots>>} }

Queries == { <<" ">>, <<" ","k"," ">>, <<"K">>, <<"k","_">>, <<"q">> }

CatIdle == [op |-> "none", query |-> <<>>, catalog |-> <<>>, at |-> 0,
            samples |-> <<>>, flags |-> <<>>, out |-> NoSearch]

CatalogInit ==
  /\ PipelineInit
  /\ tables = <<>>
  /\ first = NoFirst
  /\ nm \in { [CatIdle EXCEPT !.query = q, !.catalog = c] :
                q \in Queries, c \in Catalogs }

CatDone(n) ==
  /\ nm.op = "none"
  /\ nm' = n
  /\ UNCHANGED <<pc, req, tables, files, dirs, postgis, nextId, first>>

\* GET /api/search?q=query
NmSearch ==
  \E samples \in SampleChoices(nm.catalog, nm.query) :
    CatDone([nm EXCEPT !.op = "search", !.samples = samples,
                       !.out = SearchDatabase(nm.query, nm.catalog, samples)])

\* lines 1126-1127: an exception outside the loop over the tables
NmSearchFailed ==
  /\ Strip(nm.query) # <<>>
  /\ CatDone([nm EXCEPT !.op = "search",
                        !.out = [NoSearch EXCEPT !.status = 500, !.keys = {"error"}]])

\* the spatial test of each handler on the columns of one table
NmSpatial ==
  \E at \in DOMAIN nm.catalog :
    LET columns == nm.catalog[at].columns IN
    CatDone([nm EXCEPT !.op = "spatial", !.at = at,
                       !.flags = [test |-> TestHasSpatial(columns),
                                  api_tables |-> TablesHasSpatial(columns),
                                  api_geojson |-> GeojsonGeometryCol(columns) # <<>>,
                                  map_view |-> MapHasGeometry(columns),
                                  download |-> DownloadHasSpatial(columns),
                                  search |-> SearchHasSpatial(columns)]])

CatalogNext == NmSearch \/ NmSearchFailed \/ NmSpatial

CatalogSpec == CatalogInit /\ [][CatalogNext]_vars

\* ================================================================ claims
Staged(w) == req[w].uid # 0 /\ req[w].resp.detail # "save"
ShpLower == <<".","s","h","p">>

\* C1: after any outcome of an upload request, on POST /upload and on
\* POST /api/upload, the staged archive file and the scratch directory the
\* archive was expanded into no longer exist.
C1_CleanupAfterOutcome ==
  \A w \in AllWorkers :
    (pc[w] = "done" /\ req[w].uid # 0) =>
      (req[w].path \notin files /\ req[w].uid \notin dirs)

\* C2: two concurrent uploads that derive the same table name can both
\* snapshot before either writes; both then pass the probe with the same
\* candidate and report success with the same table_name, and the later
\* write replaces the table the earlier one created.
C2_LaterWriteReplaces ==
  [][ \A a \in AllWorkers : \A b \in AllWorkers \ {a} :
        ( /\ pc[a] = "done" /\ req[a].resp.success
          /\ pc[b] \in {"ready", "fallback"}
          /\ req[b].table_name = req[a].resp.table_name
          /\ pc'[b] = "done" /\ req'[b].resp.success )
        =>
        ( /\ req[a].resp.table_name \notin req[a].existing
          /\ req[a].resp.table_name \notin req[b].existing
          /\ req'[b].resp.table_name = req[a].resp.table_name
          /\ req'[a].resp.success
          /\ tables[req[a].resp.table_name].owner = req[a].uid
          /\ tables'[req[a].resp.table_name].owner = req[b].uid ) ]_vars

C2_Witness ==
  \E a \in AllWorkers : \E b \in AllWorkers \ {a} :
    /\ pc[a] = "done" /\ req[a].resp.success
    /\ pc[b] = "done" /\ req[b].resp.success
    /\ req[a].resp.table_name = req[b].resp.table_name
    /\ req[a].resp.table_name \notin req[a].existing \cup req[b].existing
    /\ tables[req[a].resp.table_name].owner = req[b].uid
    /\ \A n \in DOMAIN tables : tables[n].owner # req[a].uid

\* C3: with no concurrent upload, an upload never replaces, drops or alters
\* a table that existed in the public schema when the run began, on the
\* primary path and on the WKT fallback path alike.
C3_ExistingTablesUntouched ==
  \A w \in AllWorkers :
    pc[w] = "done" =>
      \A n \in DOMAIN req[w].start :
        n \in DOMAIN tables /\ tables[n] = req[w].start[n]

\* C4: the same archive uploaded a second time with no name field, while
\* the first upload's table still exists, gets the first table's name with
\* suffix _1, and the first upload's table is left intact.
C4_RepeatGetsSuffix ==
  \A w \in AllWorkers :
    (pc[w] = "done" /\ req[w].resp.success /\ req[w].uid = 2 /\ first.name = <<>>) =>
      \A n \in DOMAIN req[w].start :
        req[w].start[n].owner = 1 =>
          /\ req[w].resp.table_name = Suffixed(n, 1)
          /\ n \in DOMAIN tables
          /\ tables[n] = req[w].start[n]

\* the sequence base, base_1, base_2, ...
Candidate(base, k) == IF k = 0 THEN base ELSE Suffixed(base, k)

\* C5: for every sanitized base and every snapshot, the probe returns the
\* first candidate of base, base_1, base_2, ... that is not in the
\* snapshot: the result is not in it and every earlier candidate is.
C5_ProbeFirstUnused ==
  nm.op = "probe" =>
    LET base == SanitizeName(nm.pref) IN
    /\ nm.out \notin nm.existing
    /\ \E k \in 0..Cardinality(nm.existing) :
         /\ nm.out = Candidate(base, k)
         /\ \A j \in 0..(k - 1) : Candidate(base, j) \in nm.existing

C5_Witness ==
  /\ nm.op = "probe"
  /\ nm.out = Suffixed(SanitizeName(nm.pref), 3)
  /\ Suffixed(SanitizeName(nm.pref), 2) \in nm.existing

RoadsTaken == { S_roads, S_roads \o <<"_","1">> }

\* C6 as stated: "Roads!" with existingNames = {roads, roads_1} gives
\* roads_2.
C6_RoadsBangGivesRoads2 ==
  (nm.op = "upload_name" /\ nm.pref = S_RoadsBang /\ nm.existing = RoadsTaken)
    => nm.out = S_roads \o <<"_","2">>

\* C6 amended: "Roads!" with existingNames = {roads, roads_1} gives roads_
\* (the "!" becomes "_" and roads_ is unused); the input "Roads" gives
\* roads_2.
C6_RoadsBangGivesRoadsUnderscore ==
  /\ (nm.op = "upload_name" /\ nm.pref = S_RoadsBang /\ nm.existing = RoadsTaken)
       => nm.out = S_roads \o <<"_">>
  /\ (nm.op = "upload_name" /\ nm.pref = S_Roads /\ nm.existing = RoadsTaken)
       => nm.out = S_roads \o <<"_","2">>

C6_Witness ==
  nm.op = "upload_name" /\ nm.pref = S_RoadsBang /\ nm.existing = RoadsTaken

\* C7: every identifier produced by name derivation, by sanitize_name in
\* /upload and by _derive_table_name in /api/upload, consists of lowercase
\* letters, digits and underscores and starts with a letter.
C7_IdentifierWellFormed ==
  nm.op \in {"upload_name", "derive"} =>
    /\ nm.out # <<>>
    /\ IsAlpha(nm.out[1])
    /\ \A i \in DOMAIN nm.out : nm.out[i] \in LowerChars \cup DigitChars \cup {"_"}

\* the base the table name is to be derived from: the trimmed name field,
\* else the archive's filename without its extension
ArchiveBase(r) ==
  IF Strip(r.name) # <<>> THEN Strip(r.name)
  ELSE SplitextRoot(SecureFilename(r.filename))

\* C8: the base of the table name is the user-supplied name when non-empty
\* after trimming, otherwise the archive's base filename without extension,
\* whatever the .shp file inside the archive is called.
C8_BaseFromArchiveName ==
  \A w \in AllWorkers :
    (pc[w] = "done" /\ req[w].resp.success) =>
      req[w].resp.table_name =
        IF req[w].ep = "upload"
          THEN UniqueName(SanitizeName(ArchiveBase(req[w])), req[w].existing)
          ELSE DeriveTableName(ArchiveBase(req[w]), <<>>, req[w].uid)

ShpEntries(archive) == {e \in archive.entries : EndsWith(e.name, ShpLower)}

\* C9: every archive with two or more .shp files, anywhere in the archive,
\* fails with the multiple-shapefiles error and no table is created or
\* replaced.
C9_MultipleShpRejected ==
  \A w \in AllWorkers :
    ( /\ Staged(w) /\ ~req[w].archive.corrupt
      /\ Cardinality(ShpEntries(req[w].archive)) >= 2 )
    => /\ pc[w] \in {"staged", "done"}
       /\ pc[w] = "done" =>
            (req[w].resp.error = "multiple_shp" /\ tables = req[w].start)

\* C10: for every archive with exactly one .shp file, the locate step finds
\* it at whatever depth it sits, and the pipeline proceeds with it.
C10_SingleShpLocated ==
  \A w \in AllWorkers :
    ( /\ Staged(w) /\ ~req[w].archive.corrupt
      /\ \E e \in req[w].archive.entries :
           req[w].archive.entries = {e} /\ EndsWith(e.name, ShpLower) )
    => /\ pc[w] \in {"named", "ready", "fallback"} =>
            req[w].shp \in req[w].archive.entries
       /\ pc[w] = "done" =>
            /\ req[w].resp.error \notin {"no_shp", "multiple_shp"}
            /\ req[w].resp.detail # "no_shp"

\* ------------------------------------------------------------ C11 .. C20
\* the .shp entries of an archive, in any letter case, at any depth
AnyCaseShp(archive) ==
  {e \in archive.entries : EndsWith(Lower(e.name), ShpLower)}

\* 'No shapefile (.shp) found in ZIP' and
\* 'Upload failed: No .shp found inside the ZIP'
NoShpError(resp) ==
  \/ resp.error = "no_shp"
  \/ resp.error = "upload_failed" /\ resp.detail = "no_shp"

\* C11: for every archive that contains no .shp file, the upload fails
\* with the no-shapefile error and no table is created.
C11_NoShpFails ==
  \A w \in AllWorkers :
    (Staged(w) /\ ~req[w].archive.corrupt /\ AnyCaseShp(req[w].archive) = {})
    => /\ pc[w] \in {"staged", "done"}
       /\ pc[w] = "done" =>
            /\ ~req[w].resp.success
            /\ NoShpError(req[w].resp)
            /\ tables = req[w].start

C11_Witness ==
  \E w \in AllWorkers :
    /\ pc[w] = "done" /\ Staged(w) /\ ~req[w].archive.corrupt
    /\ req[w].archive.entries # {}
    /\ AnyCaseShp(req[w].archive) = {}
    /\ NoShpError(req[w].resp)

\* C12: the .shp extension is matched case-insensitively: the no-shapefile
\* failure occurs only if no entry ends with .shp in any letter case, so an
\* archive whose single shapefile has an upper-case extension is located.
\* Stated for archives whose entries are all at the top level.
C12_ExtensionAnyCase ==
  \A w \in AllWorkers :
    ( /\ pc[w] = "done" /\ Staged(w) /\ ~req[w].archive.corrupt
      /\ \A e \in req[w].archive.entries : e.depth = 0
      /\ NoShpError(req[w].resp) )
    => AnyCaseShp(req[w].archive) = {}

\* the filename ends with ".zip" in some letter case
HasZipExt(filename) == EndsWith(Lower(filename), <<".","z","i","p">>)

\* C13: a request whose (non-empty) filename has no .zip extension is
\* rejected as an invalid type before anything is written: no token is
\* drawn, no staged file and no scratch directory is created, and the
\* database is left alone.
C13_NonZipRejected ==
  [][ \A w \in AllWorkers :
        ( /\ pc[w] = "idle" /\ pc'[w] # "idle"
          /\ req'[w].has_file /\ req'[w].filename # <<>>
          /\ ~HasZipExt(req'[w].filename) )
        =>
        ( /\ pc'[w] = "done"
          /\ req'[w].resp.status = 400
          /\ req'[w].resp.error = "invalid_type"
          /\ req'[w].uid = 0 /\ req'[w].path = <<>>
          /\ nextId' = nextId
          /\ files' = files /\ dirs' = dirs
          /\ tables' = tables /\ postgis' = postgis ) ]_vars

C13_Witness ==
  \E w \in AllWorkers :
    /\ pc[w] = "done" /\ req[w].has_file
    /\ req[w].filename # <<>> /\ ~HasZipExt(req[w].filename)
    /\ req[w].resp.error = "invalid_type"

\* 'Shapefile contains no features' and
\* 'Upload failed: Shapefile contains no features'
NoFeaturesError(resp) ==
  \/ resp.error = "no_features"
  \/ resp.error = "upload_failed" /\ resp.detail = "no_features"

\* C14: when the shapefile that was read has zero features, the step that
\* read it ends the request with the no-features error; the extension is
\* not attempted and no table is created, replaced or left behind.
C14_ZeroFeaturesFails ==
  [][ \A w \in AllWorkers :
        (~req[w].read /\ req'[w].read /\ req'[w].rows = 0)
        =>
        ( /\ pc'[w] = "done"
          /\ ~req'[w].resp.success
          /\ NoFeaturesError(req'[w].resp)
          /\ ~req'[w].exc.raised /\ ~req'[w].fexc.raised
          /\ tables' = tables /\ tables' = req'[w].start
          /\ postgis' = postgis ) ]_vars

C14_Witness ==
  \E w \in AllWorkers :
    /\ pc[w] = "done" /\ req[w].read /\ req[w].rows = 0
    /\ NoFeaturesError(req[w].resp)
    /\ req[w].ep = "upload"

\* C15: a FeatureSet that declares no CRS leaves normalization tagged
\* EPSG:4326, and the table written from it carries EPSG:4326.
C15_NoCrsTaggedWgs84 ==
  \A w \in AllWorkers :
    (pc[w] = "done" /\ req[w].resp.success /\ req[w].declared = "none")
    => /\ req[w].crs = "epsg4326"
       /\ tables[req[w].resp.table_name].srid = "epsg4326"

\* the FeatureSet of request w has passed CRS normalization
Normalized(w) ==
  /\ req[w].read /\ req[w].rows > 0
  /\ pc[w] \in {"ready", "fallback", "done"}

\* C16 as stated: a FeatureSet declared in a CRS other than WGS84 leaves
\* normalization reprojected, its CRS WGS84; one already in EPSG:4326 is
\* left unchanged.
C16_AlwaysReprojected ==
  \A w \in AllWorkers :
    (Normalized(w) /\ req[w].declared # "none") => req[w].crs = "epsg4326"

\* C16 amended: a FeatureSet declared in a CRS other than WGS84 is handed
\* to the reprojection; when the reprojection returns, its CRS is WGS84,
\* and when it fails the FeatureSet keeps its declared CRS.  One already in
\* EPSG:4326 leaves normalization in EPSG:4326.
C16_ReprojectedUnlessFailure ==
  \A w \in AllWorkers :
    Normalized(w) =>
      /\ req[w].declared = "epsg4326" => req[w].crs = "epsg4326"
      /\ req[w].declared \in {"epsg_other", "non_epsg"} =>
           /\ req[w].reproj \in {"ok", "failed"}
           /\ req[w].reproj = "ok" => req[w].crs = "epsg4326"
           /\ req[w].reproj = "failed" => req[w].crs = req[w].declared

C16_Witness ==
  \E w \in AllWorkers :
    /\ pc[w] = "done" /\ req[w].resp.success /\ req[w].ep = "upload"
    /\ req[w].declared = "non_epsg" /\ req[w].reproj = "ok"
    /\ req[w].crs = "epsg4326"
    /\ tables[req[w].resp.table_name].srid = "epsg4326"

\* C17: a failure of reprojection never aborts the upload: the pipeline
\* goes on to the write stage with the FeatureSet in its declared CRS, a
\* failure can only come from the write stage, and the degradation has
\* emitted a warning.
C17_DegradationWarns ==
  \A w \in AllWorkers :
    (Normalized(w) /\ req[w].reproj = "failed" /\ req[w].crs # "epsg4326")
    => /\ req[w].crs = req[w].declared
       /\ (pc[w] = "done" /\ ~req[w].resp.success) =>
            (req[w].exc.raised \/ req[w].fexc.raised)
       /\ req[w].warned

\* the schema of a table: its geometry column and its CRS tag
SchemaOf(t) == [geom |-> t.geom, srid |-> t.srid]

\* C18: the table the WKT fallback produces has the schema the primary
\* bulk write gives the same FeatureSet: the same geometry column and the
\* same CRS tag, also when the FeatureSet has no CRS or was left
\* un-reprojected.
C18_FallbackSchemaAsPrimary ==
  \A w \in AllWorkers :
    ( /\ pc[w] = "done" /\ req[w].resp.success
      /\ tables[req[w].resp.table_name].via = "wkt" )
    => SchemaOf(tables[req[w].resp.table_name]) = SchemaOf(BulkTable(req[w]))

\* the exception that ended the write stage
FailingExc(r) == IF r.fexc.raised THEN r.fexc ELSE r.exc

\* C19: whenever the write stage fails, on the primary path or on the
\* fallback path, with an error that mentions postgis or st_geomfromtext,
\* the caller gets the translated extension-missing message and not the
\* raw message.
C19_ExtensionErrorTranslated ==
  \A w \in AllWorkers :
    ( /\ pc[w] = "done" /\ ~req[w].resp.success
      /\ FailingExc(req[w]).raised /\ FailingExc(req[w]).postgis )
    => /\ req[w].resp.error = "postgis_missing"
       /\ req[w].resp.detail = ""

\* C20: the fallback runs only after the primary write raised an
\* AttributeError that mentions copy_expert; every other failure of the
\* primary write starts no fallback, changes no table and ends the request
\* with a failure.
C20_FallbackOnlyOnCopyExpert ==
  \A w \in AllWorkers :
    /\ ( \/ pc[w] = "fallback"
         \/ req[w].fexc.raised
         \/ \E n \in DOMAIN tables :
              tables[n].via = "wkt" /\ tables[n].owner = req[w].uid )
       => (req[w].exc.raised /\ req[w].exc.attr /\ req[w].exc.copy_expert)
    /\ (req[w].exc.raised /\ ~(req[w].exc.attr /\ req[w].exc.copy_expert))
       => /\ pc[w] = "done"
          /\ ~req[w].resp.success
          /\ ~req[w].fexc.raised
          /\ tables = req[w].start

C20_Witness ==
  \E w \in AllWorkers :
    /\ pc[w] = "done" /\ req[w].ep = "upload"
    /\ req[w].exc.raised /\ req[w].exc.attr /\ ~req[w].exc.copy_expert
    /\ ~req[w].resp.success

\* ------------------------------------------------------------ C21 .. C30
\* C21: a successful run of POST /upload leaves the schema with exactly one
\* table more than it had before the run, the table named in the result;
\* after a successful fallback run the staging table does not exist.
C21_ExactlyOneTableMore ==
  \A w \in AllWorkers :
    (pc[w] = "done" /\ req[w].resp.success /\ req[w].ep = "upload")
    => LET name == req[w].resp.table_name IN
       /\ name \notin DOMAIN req[w].start
       /\ DOMAIN tables = DOMAIN req[w].start \cup {name}
       /\ tables[name].via = "wkt" => (name \o S_wkt_tmp) \notin DOMAIN tables

\* the request of worker w went through the processing pipeline
PipelineRun(w) == pc[w] = "done" /\ req[w].uid # 0

\* the stages of the request that ran
Located(r) == r.shp.name # <<>>
Listed(r) == r.ep = "upload" /\ r.table_name # <<>>
WriteTried(r) == r.exc.raised \/ r.resp.success

\* C23: every pipeline run ends in a classified result, and it stops at the
\* first failure: after a failure of the archive, of the locate step, of
\* the read or of the no-features check no later stage has run (no file
\* located, no schema listing, no read, no extension attempt, no write),
\* after a failed write no table has changed, and the caller gets an error
\* result.
C23_StopsAtFirstFailure ==
  \A w \in AllWorkers :
    PipelineRun(w) =>
      LET r == req[w] IN
      /\ r.resp.status # 0
      /\ r.resp.success \/ r.resp.error # ""
      /\ ~r.resp.success => tables = r.start
      /\ r.archive.corrupt =>
           /\ ~r.resp.success /\ ~Located(r) /\ ~Listed(r)
           /\ ~r.read /\ r.ext = "none" /\ ~WriteTried(r)
      /\ (NoShpError(r.resp) \/ r.resp.error = "multiple_shp") =>
           /\ ~Located(r) /\ ~Listed(r)
           /\ ~r.read /\ r.ext = "none" /\ ~WriteTried(r)
      /\ ~r.read => (r.ext = "none" /\ ~WriteTried(r))
      /\ (r.read /\ r.rows = 0) =>
           /\ ~r.resp.success /\ r.ext = "none" /\ ~WriteTried(r)
      /\ (r.exc.raised /\ ~(r.ep = "upload" /\ StartsFallback(r.exc))) =>
           (~r.resp.success /\ ~r.fexc.raised)
      /\ r.fexc.raised => ~r.resp.success

C23_Witness ==
  \E w \in AllWorkers :
    /\ PipelineRun(w) /\ req[w].ep = "upload"
    /\ req[w].read /\ req[w].rows = 0
    /\ req[w].start = tables /\ req[w].table_name # <<>>

\* C24: the response of every successful upload carries table_name (the
\* table actually written), feature_count (the number of features of the
\* shapefile) and crs (EPSG:4326 or null).
C24_SuccessPayload ==
  \A w \in AllWorkers :
    (pc[w] = "done" /\ req[w].resp.success)
    => /\ {"table_name", "feature_count", "crs"} \subseteq req[w].resp.keys
       /\ req[w].resp.table_name \in DOMAIN tables
       /\ tables[req[w].resp.table_name].owner = req[w].uid
       /\ req[w].resp.count = req[w].rows
       /\ req[w].resp.crs \in {"epsg4326", "none"}

\* the request is malformed: no file part, an empty filename, or a filename
\* without a .zip extension
Malformed(r) == ~r.has_file \/ r.filename = <<>> \/ ~HasZipExt(r.filename)

\* C25: every failed upload request answers with an error message; a
\* malformed request gets a 4xx status and a failure inside the pipeline a
\* 5xx status; no failure is answered with a success status.
C25_StatusReflectsClass ==
  \A w \in AllWorkers :
    (pc[w] = "done" /\ ~req[w].resp.success)
    => /\ "error" \in req[w].resp.keys
       /\ req[w].resp.error # ""
       /\ IF Malformed(req[w])
            THEN req[w].resp.status \in 400..499
            ELSE req[w].resp.status \in 500..599

C25_Witness ==
  \E w \in AllWorkers :
    /\ pc[w] = "done" /\ ~req[w].resp.success
    /\ ~Malformed(req[w])
    /\ req[w].exc.raised
    /\ req[w].resp.status = 500

\* the routines that attempt to enable the extension
AttemptsExtension(r) == r.ep \in {"upload", "script"}

\* C22: in process_shapefile_upload and in the import script, a failed
\* attempt to enable the extension does not end the run, the write is still
\* attempted afterwards (a run that fails after it fails in a later stage),
\* and the attempt comes before the first write attempt.
C22_ExtensionFailureNotFatal ==
  [][ \A w \in AllWorkers :
        AttemptsExtension(req'[w]) =>
          /\ (req[w].ext = "none" /\ req'[w].ext = "failed") =>
               /\ pc'[w] # "done"
               /\ ~WriteTried(req'[w]) /\ tables' = tables
          /\ (req'[w].exc.raised /\ ~req[w].exc.raised) => req[w].ext # "none"
          /\ tables' # tables => req[w].ext # "none"
          /\ (req[w].ext = "failed" /\ pc[w] # "done" /\ pc'[w] = "done"
              /\ ~req'[w].resp.success) =>
               \/ req'[w].exc.raised \/ req'[w].fexc.raised
               \/ ~req'[w].read /\ req'[w].resp.error = "examine" ]_vars

C22_Witness ==
  \E w \in AllWorkers :
    /\ pc[w] = "done" /\ req[w].ep = "upload"
    /\ req[w].ext = "failed" /\ req[w].resp.success
    /\ tables[req[w].resp.table_name].owner = req[w].uid

\* C28: every table created by a successful upload, through either entry
\* point, is accepted by GET /download/shapefile/<table>: the handler
\* detects it as spatial and reads its geometry from the column the upload
\* wrote.
C28_UploadThenDownload ==
  \A w \in AllWorkers :
    ( /\ pc[w] = "done" /\ req[w].ep = "download"
      /\ req[w].table_name \in DOMAIN tables
      /\ tables[req[w].table_name].owner # 0
      /\ tables[req[w].table_name].rows > 0 )
    => /\ req[w].resp.error # "not_spatial"
       /\ ~(req[w].resp.error = "failed_to_create" /\ req[w].resp.detail = "geom_col")

\* the inputs for which the routine called falls back to a generated name
NameFromToken ==
  \/ /\ nm.op = "upload_twice"
     /\ SanitizeName(Strip(nm.pref)) = <<>>
     /\ SanitizeName(SplitextRoot(nm.file)) = <<>>
  \/ /\ nm.op = "derive_twice"
     /\ Strip(IF Strip(nm.pref) # <<>> THEN Strip(nm.pref)
              ELSE SplitextRoot(nm.file)) = <<>>

C27_EntryPointsSameName ==
  nm.op = "both" => nm.out = nm.out2

\* C29: every handler that decides whether a table is spatial gives the
\* answer of the predicate of test_spatial.py, so all handlers agree on
\* every table.
C29_SameSpatialAnswer ==
  nm.op = "spatial" =>
    \A h \in {"api_tables", "api_geojson", "map_view", "download", "search"} :
      nm.flags[h] = nm.flags.test

\* a text value of the table contains the query, in any letter case
TextValueMatch(t, query) ==
  \E r \in DOMAIN t.rows, j \in DOMAIN t.columns :
    IsSearchCol(t.columns[j]) /\ Contains(Lower(t.rows[r][j]), Lower(query))

NameMatch(t, query) == Contains(Lower(t.table_name), Lower(query))

ColumnMatch(t, query) ==
  \E j \in DOMAIN t.columns : Contains(Lower(t.columns[j].name), Lower(query))

\* results is a prefix of at most ResultLimit of the counted tables in
\* non-increasing order of relevance_score
PrefixByRelevance(out, counted, score(_)) ==
  LET listed == {out.results[k].at : k \in DOMAIN out.results} IN
  /\ Len(out.results) = Min(ResultLimit, Cardinality(counted))
  /\ listed \subseteq counted
  /\ Cardinality(listed) = Len(out.results)
  /\ \A k \in DOMAIN out.results :
       out.results[k].relevance_score = score(out.results[k].at)
  /\ \A k \in 1..(Len(out.results) - 1) :
       out.results[k].relevance_score >= out.results[k + 1].relevance_score
  /\ \A k \in DOMAIN out.results, i \in counted \ listed :
       out.results[k].relevance_score >= score(i)

\* a sampled row of the table contains the query in a text value
SampledRows(t, query, sample) ==
  {r \in sample : \E j \in DOMAIN t.columns :
     IsSearchCol(t.columns[j]) /\ Contains(Lower(t.rows[r][j]), Lower(query))}

\* 10 for the table name, 5 per matching column name, 2 per sampled data
\* match, at most 10 of them counted
ClaimedScore(t, query, sample) ==
  (IF NameMatch(t, query) THEN 10 ELSE 0)
  + 5 * Cardinality({j \in DOMAIN t.columns :
                       Contains(Lower(t.columns[j].name), Lower(query))})
  + 2 * Min(Cardinality(SampledRows(t, query, sample)), 10)

\* C30 as stated: for a query that is not empty, total_results is the
\* number of tables that match by table name, a column name or a text
\* value, results is the prefix of at most 20 of them in non-increasing
\* relevance_score order, and a table whose name matches is counted.
C30_CountsEveryMatch ==
  (nm.op = "search" /\ Strip(nm.query) # <<>> /\ nm.out.status = 200) =>
    LET query == Strip(nm.query)
        matching == {i \in DOMAIN nm.catalog :
                       \/ NameMatch(nm.catalog[i], query)
                       \/ ColumnMatch(nm.catalog[i], query)
                       \/ TextValueMatch(nm.catalog[i], query)}
        score(i) == ClaimedScore(nm.catalog[i], query, nm.samples[i]) IN
    /\ "total_results" \in nm.out.keys
    /\ nm.out.total_results = Cardinality(matching)
    /\ PrefixByRelevance(nm.out, matching, score)

\* C30 amended: for a query that is not empty after trimming and a search
\* answered with status 200, the tables counted are those whose handling
\* raised no error and that match by table name, by a column name or by a
\* text value of one of the at most 3 rows sampled among those the LIKE
\* condition selects; total_results is their number, results is the prefix
\* of at most 20 of them in non-increasing relevance_score order with the
\* stated score, and a table whose name matches and whose handling raised
\* no error is counted, and listed unless 20 tables are listed.  A query
\* that is empty after trimming is answered with an empty results list and
\* no total_results.
C30_CountsHandledMatches ==
  nm.op = "search" =>
    LET query == Strip(nm.query)
        counted == {i \in DOMAIN nm.catalog :
                      /\ ~nm.catalog[i].raises
                      /\ \/ NameMatch(nm.catalog[i], query)
                         \/ ColumnMatch(nm.catalog[i], query)
                         \/ SampledRows(nm.catalog[i], query, nm.samples[i]) # {}}
        score(i) == ClaimedScore(nm.catalog[i], query, nm.samples[i])
        listed == {nm.out.results[k].at : k \in DOMAIN nm.out.results} IN
    /\ query = <<>> => nm.out.keys = {"results"} /\ nm.out.results = <<>>
    /\ (query # <<>> /\ nm.out.status = 200) =>
         /\ \A i \in DOMAIN nm.catalog :
              /\ nm.samples[i] \subseteq LikeRows(nm.catalog[i], query)
              /\ Cardinality(nm.samples[i])
                   = Min(SampleLimit, Cardinality(LikeRows(nm.catalog[i], query)))
         /\ "total_results" \in nm.out.keys
         /\ nm.out.total_results = Cardinality(counted)
         /\ PrefixByRelevance(nm.out, counted, score)
         /\ \A i \in DOMAIN nm.catalog :
              (NameMatch(nm.catalog[i], query) /\ ~nm.catalog[i].raises) =>
                /\ i \in counted
                /\ i \in listed \/ Len(nm.out.results) = ResultLimit

C30_Witness ==
  /\ nm.op = "search" /\ nm.out.status = 200
  /\ nm.out.total_results > ResultLimit
  /\ Len(nm.out.results) = ResultLimit
  /\ nm.out.results[1].relevance_score > nm.out.results[2].relevance_score
  /\ nm.out.results[1].at > nm.out.results[2].at
  /\ \E i \in DOMAIN nm.catalog :
       nm.catalog[i].raises /\ NameMatch(nm.catalog[i], Strip(nm.query))

====
